---- MODULE Spec2Model ----
(***************************************************************************)
(* Dead DML method analysis (py/dead_dml_methods.py).                      *)
(*                                                                         *)
(* Three machines share this module:                                       *)
(*   Spec / SpecScope / FairSpec  find_dead_methods, one step per loop     *)
(*                                iteration of the function                *)
(*   SpecHeader                   dml_sources_from_body on header texts    *)
(*   SpecAst                      traverse_ast on syntax trees             *)
(***************************************************************************)
EXTENDS Integers, Sequences, FiniteSets, TLC

VARIABLES
    \* ---- inputs of find_dead_methods (never changed by it)
    c_files,            \* set of artifact paths, as passed by the caller
    text,               \* canonical artifact path -> #line matches in its text
    dml_files,          \* set of DML paths, as passed by the caller
    ast,                \* DML path -> tree returned by parse_file
    version,            \* DML path -> version returned by determine_version
    \* ---- locals of find_dead_methods
    pc,                 \* position in the function
    todo,               \* sorted(c_files) not yet scanned
    linemarks_by_path,  \* dict: resolved path -> set of line numbers
    lm_order,           \* insertion order of linemarks_by_path's keys
    k,                  \* number of linemarks_by_path items already visited
    dml_file,           \* key of the item being swept
    linemarks,          \* sorted(linemarks) + [math.inf] of that item
    i,                  \* pointer into linemarks (0-based, as in the code)
    spans,              \* sorted(method_locations(dml_file))
    j,                  \* number of spans already swept
    dead,               \* dict: path -> list of (first_line, name)
    skipped,            \* list of paths
    \* ---- dml_sources_from_body
    listed,             \* the paths the header of body was written from
    body,               \* text handed to dml_sources_from_body
    sources,            \* its result, once called
    \* ---- traverse_ast
    tree,               \* tree handed to traverse_ast
    yielded             \* what list(traverse_ast(tree)) gives, once called

vars == <<c_files, text, dml_files, ast, version, pc, todo, linemarks_by_path,
          lm_order, k, dml_file, linemarks, i, spans, j, dead, skipped,
          listed, body, sources, tree, yielded>>

findInputs == <<c_files, text, dml_files, ast, version>>
findLocals == <<pc, todo, linemarks_by_path, lm_order, k, dml_file, linemarks,
                i, spans, j, dead, skipped>>
headerVars == <<listed, body, sources>>
astVars == <<tree, yielded>>

(***************************************************************************)
(* Bounds of the explored inputs.                                          *)
(***************************************************************************)
MaxLine == 3        \* line numbers of enumerated spans and markers: 1..MaxLine
MaxSpans == 2       \* methods per enumerated DML file
MaxPaths == 2       \* paths listed in an enumerated header
MaxPathLen == 2     \* characters per enumerated header path
MaxNodes == 4       \* nodes per enumerated tree

(***************************************************************************)
(* Generic helpers.                                                        *)
(***************************************************************************)
Range(s) == {s[n] : n \in DOMAIN s}

Last(s) == s[Len(s)]

Front(s) == SubSeq(s, 1, Len(s) - 1)

RECURSIVE SeqsUpTo(_, _)
SeqsUpTo(S, n) ==
    IF n = 0 THEN {<<>>}
    ELSE LET shorter == SeqsUpTo(S, n - 1)
         IN shorter \cup {Append(s, x) : s \in {t \in shorter : Len(t) = n - 1}, x \in S}

\* number of positions of sequence s holding x
Count(s, x) == Cardinality({n \in DOMAIN s : s[n] = x})

NoDuplicates(s) == \A m, n \in DOMAIN s : s[m] = s[n] => m = n

(***************************************************************************)
(* Paths.  A path is the sequence of its parts, as pathlib's Path.parts:   *)
(* an absolute path starts with the part "/".  The file system the         *)
(* analysis runs in: working directory /w, DML files /w/a.dml and          *)
(* /w/b.dml, artifacts /w/obj/x.c and /w/obj/y.c, and a symbolic link      *)
(* /w/lnk -> /w/obj.                                                       *)
(***************************************************************************)
Cwd == <<"/", "w">>

LinkPath == <<"/", "w", "lnk">>

LinkTarget == <<"/", "w", "obj">>

FileA == <<"/", "w", "a.dml">>

FileB == <<"/", "w", "b.dml">>

ArtX == <<"/", "w", "obj", "x.c">>

ArtY == <<"/", "w", "obj", "y.c">>

IsAbsolute(p) == Len(p) > 0 /\ p[1] = "/"

\* Path.parent
Parent(p) == IF Len(p) > 1 THEN Front(p) ELSE IF IsAbsolute(p) THEN p ELSE <<>>

\* c_file.parent / dml_file: an absolute right operand replaces the left one
Join(p, q) == IF IsAbsolute(q) THEN q ELSE p \o q

\* Path.resolve(): make absolute against the working directory, then walk the
\* parts, following symbolic links and applying ".." to the resolved prefix
RECURSIVE Walk(_, _)
Walk(acc, rest) ==
    IF rest = <<>> THEN acc
    ELSE LET c == Head(rest)
             n == Append(acc, c)
         IN IF c = ".."
            THEN Walk(IF Len(acc) > 1 THEN Front(acc) ELSE acc, Tail(rest))
            ELSE Walk(IF n = LinkPath THEN LinkTarget ELSE n, Tail(rest))

Resolve(p) == IF IsAbsolute(p) THEN Walk(<<"/">>, Tail(p)) ELSE Walk(Cwd, p)

\* order of path parts (code point order of the strings used here)
PartRank(c) ==
    CASE c = ".."    -> 0
      [] c = "/"     -> 1
      [] c = "a.dml" -> 2
      [] c = "b.dml" -> 3
      [] c = "lnk"   -> 4
      [] c = "obj"   -> 5
      [] c = "w"     -> 6
      [] c = "x.c"   -> 7
      [] c = "y.c"   -> 8

\* Path.__lt__: lexicographic on the parts
RECURSIVE PathLess(_, _)
PathLess(p, q) ==
    IF q = <<>> THEN FALSE
    ELSE IF p = <<>> THEN TRUE
    ELSE IF Head(p) = Head(q) THEN PathLess(Tail(p), Tail(q))
    ELSE PartRank(Head(p)) < PartRank(Head(q))

\* sorted(c_files)
RECURSIVE SortedPaths(_)
SortedPaths(S) ==
    IF S = {} THEN <<>>
    ELSE LET m == CHOOSE p \in S : \A q \in S \ {p} : PathLess(p, q)
         IN <<m>> \o SortedPaths(S \ {m})

(***************************************************************************)
(* #line matches.  A match of line_directive_re is the pair of its groups: *)
(* line_str, a sequence of decimal digits, and dml_file, the quoted path.  *)
(***************************************************************************)
Match(ls, f) == [line_str |-> ls, dml_file |-> f]

\* int(line_str)
RECURSIVE IntOf(_)
IntOf(ds) == IF ds = <<>> THEN 0 ELSE 10 * IntOf(Front(ds)) + Last(ds)

\* keys of linemarks_by_pathstr in insertion order
RECURSIVE PathStrs(_)
PathStrs(ms) ==
    IF ms = <<>> THEN <<>>
    ELSE LET r == PathStrs(Front(ms))
         IN IF Last(ms).dml_file \in Range(r) THEN r ELSE Append(r, Last(ms).dml_file)

\* linemarks_by_pathstr[f], as a set (it is only ever passed to set.update)
LinesOf(ms, f) == {IntOf(ms[n].line_str) : n \in {x \in DOMAIN ms : ms[x].dml_file = f}}

\* the test "abs_path != c_file" that drops self-referencing directives
KeepsMark(abs_path, c_file) == abs_path # c_file

\* linemarks_by_path.setdefault(abs_path, set()).update(linemarks)
DictUpdate(d, key, lines) ==
    IF key \in DOMAIN d.map
    THEN [d EXCEPT !.map[key] = @ \cup lines]
    ELSE [map |-> d.map @@ (key :> lines), order |-> Append(d.order, key)]

\* the loop over linemarks_by_pathstr.items() for one artifact
RECURSIVE Normalize(_, _, _, _)
Normalize(keys, ms, c_file, d) ==
    IF keys = <<>> THEN d
    ELSE LET f == Head(keys)
             abs_path == Resolve(Join(Parent(c_file), f))
         IN Normalize(Tail(keys), ms, c_file,
                      IF KeepsMark(abs_path, c_file)
                      THEN DictUpdate(d, abs_path, LinesOf(ms, f))
                      ELSE d)

\* c_file.read_text(): the matches in the file the path leads to
ReadMatches(c_file) == text[Resolve(c_file)]

(***************************************************************************)
(* Syntax trees.  Every node is a record of one shape: kind; lineno, the   *)
(* line of ast.site; endlineno, the line of the closing-brace site         *)
(* (args[4] of a method, args[7] of a shared method); name (args[0]);      *)
(* inp, the types of the input parameters, "None" for an untyped one;      *)
(* body; stmts, the statement list of a container or the true branch of a  *)
(* conditional; els, the false branch.  A body is a record of its kind and *)
(* the kinds of its top-level statements; NoBody stands for None.          *)
(***************************************************************************)
DeclKinds == {"constant", "dml_typedef", "extern", "extern_typedef",
              "loggroup", "struct", "import", "header", "footer", "is",
              "typedparam", "parameter", "saved", "session",
              "sharedhook", "hook", "error", "export"}

BlockKinds == {"template", "template_dml12", "in_each"}

IfKinds == {"toplevel_if", "hashif"}

NoBody == [kind |-> "none", stmts |-> <<>>]

Compound(stmtKinds) == [kind |-> "compound", stmts |-> stmtKinds]

Node(kind, lineno, endlineno, name, inp, bd, stmts, els) ==
    [kind |-> kind, lineno |-> lineno, endlineno |-> endlineno, name |-> name,
     inp |-> inp, body |-> bd, stmts |-> stmts, els |-> els]

Leaf(kind) == Node(kind, 0, 0, "", <<>>, NoBody, <<>>, <<>>)

Block(kind, stmts) == Node(kind, 0, 0, "", <<>>, NoBody, stmts, <<>>)

Cond(kind, t, f) == Node(kind, 0, 0, "", <<>>, NoBody, t, f)

Method(first, last, name, inp, bd) == Node("method", first, last, name, inp, bd, <<>>, <<>>)

SharedMethod(first, last, name, bd) == Node("sharedmethod", first, last, name, <<>>, bd, <<>>, <<>>)

\* a method descriptor: (first line, last line, name, ignored)
Desc(first, last, name, ignored) == <<first, last, name, ignored>>

\* result of a call: the value returned, or an exception; NotCalled before
Yield(out) == [called |-> TRUE, ok |-> TRUE, out |-> out]

Raise == [called |-> TRUE, ok |-> FALSE, out |-> <<>>]

NotCalled == [called |-> FALSE, ok |-> FALSE, out |-> <<>>]

\* the 'ignored' flag of a 'method' node: an untyped input parameter (an
\* inline method) or an error statement at the top level of the body
MethodIgnored(inp, bd) ==
    \/ \E n \in DOMAIN inp : inp[n] = "None"
    \/ \E n \in DOMAIN bd.stmts : bd.stmts[n] = "error"

\* the 'sharedmethod' branch: abstract methods yield nothing
SharedMethodYield(node) ==
    IF node.body = NoBody THEN Yield(<<>>)
    ELSE IF node.body.kind # "compound" THEN Raise
    ELSE Yield(<<Desc(node.lineno, node.endlineno, node.name, FALSE)>>)

\* the 'method' branch
MethodYield(node) ==
    IF node.body.kind # "compound" THEN Raise
    ELSE Yield(<<Desc(node.lineno, node.endlineno, node.name,
                      MethodIgnored(node.inp, node.body))>>)

\* the kinds whose statements are traversed: 'dml' and 'object', and the
\* kinds the final assert lets through
IsContainer(kind) == kind \in {"dml", "object"} \cup BlockKinds

\* IfStmts with the false branch forgotten
TrueBranchOnly(node) == node.stmts

\* "for block in [t, f]: for stmt in block": the statements of both branches
IfStmts(node) == node.stmts \o node.els

RECURSIVE traverse_ast(_)
RECURSIVE traverse_stmts(_)
\* for stmt in stmts: yield from traverse_ast(stmt)
traverse_stmts(stmts) ==
    IF stmts = <<>> THEN Yield(<<>>)
    ELSE LET h == traverse_ast(Head(stmts))
         IN IF ~h.ok THEN Raise
            ELSE LET t == traverse_stmts(Tail(stmts))
                 IN IF ~t.ok THEN Raise ELSE Yield(h.out \o t.out)

traverse_ast(node) ==
    IF node.kind \in DeclKinds THEN Yield(<<>>)
    ELSE IF node.kind = "method" THEN MethodYield(node)
    ELSE IF node.kind = "sharedmethod" THEN SharedMethodYield(node)
    ELSE IF node.kind \in IfKinds THEN traverse_stmts(IfStmts(node))
    ELSE IF IsContainer(node.kind) THEN traverse_stmts(node.stmts)
    ELSE Raise

\* version == (1, 2): every method of the file is ignored
ForceIgnored(locs) == [n \in DOMAIN locs |-> Desc(locs[n][1], locs[n][2], locs[n][3], TRUE)]

IsDml12(v) == v = <<1, 2>>

\* method_locations(path), when the traversal raises nothing
method_locations(path) ==
    LET locs == traverse_ast(ast[path]).out
    IN IF IsDml12(version[path]) THEN ForceIgnored(locs) ELSE locs

(***************************************************************************)
(* sorted(method_locations(dml_file)): Python's order on the tuples        *)
(* (first_line, last_line, name, ignored), False before True.              *)
(***************************************************************************)
NameRank(n) ==
    CASE n = "a" -> 1
      [] n = "b" -> 2
      [] n = "c" -> 3
      [] n = "d" -> 4
      [] n = "e" -> 5

BoolRank(b) == IF b THEN 1 ELSE 0

DescLess(x, y) ==
    \/ x[1] < y[1]
    \/ x[1] = y[1] /\ x[2] < y[2]
    \/ x[1] = y[1] /\ x[2] = y[2] /\ NameRank(x[3]) < NameRank(y[3])
    \/ x[1] = y[1] /\ x[2] = y[2] /\ x[3] = y[3] /\ BoolRank(x[4]) < BoolRank(y[4])

\* insert x into the sorted list s, after the elements not greater than it
RECURSIVE Insert(_, _)
Insert(s, x) ==
    IF s = <<>> THEN <<x>>
    ELSE IF DescLess(x, Head(s)) THEN <<x>> \o s
    ELSE <<Head(s)>> \o Insert(Tail(s), x)

RECURSIVE sorted(_)
sorted(s) == IF s = <<>> THEN <<>> ELSE Insert(sorted(Front(s)), Last(s))

(***************************************************************************)
(* The marker list of one file: sorted(linemarks) + [math.inf].  An entry  *)
(* is a record, so that the sentinel compares greater than every line.     *)
(***************************************************************************)
Fin(n) == [inf |-> FALSE, n |-> n]

Inf == [inf |-> TRUE, n |-> 0]

RECURSIVE SortedLines(_)
SortedLines(S) ==
    IF S = {} THEN <<>>
    ELSE LET m == CHOOSE x \in S : \A y \in S : x <= y
         IN <<Fin(m)>> \o SortedLines(S \ {m})

\* WithSentinel without the sentinel
WithoutSentinel(S) == SortedLines(S)

WithSentinel(S) == Append(SortedLines(S), Inf)

\* linemarks[i] > last_line
MarkAfter(mark, last_line) == mark.inf \/ mark.n > last_line

\* ReportsDead without the test of the ignored flag
ReportsDeadIgnoringFlag(mark, last_line, ignored) == MarkAfter(mark, last_line)

\* the test of line 168: the method is reported
ReportsDead(mark, last_line, ignored) == MarkAfter(mark, last_line) /\ ~ignored

\* MarkConsumed with the comparison made strict
MarkConsumedStrict(mark, last_line) == ~mark.inf /\ mark.n < last_line

\* the loop condition of line 170: linemarks[i] <= last_line
MarkConsumed(mark, last_line) == ~mark.inf /\ mark.n <= last_line

\* dead.setdefault(dml_file, []).append((first_line, name))
DeadAppend(d, file, entry) ==
    IF file \in DOMAIN d THEN [d EXCEPT ![file] = Append(@, entry)]
    ELSE d @@ (file :> <<entry>>)

\* NotIgnored without its filter
AllMethods(locs) == [n \in DOMAIN locs |-> <<locs[n][1], locs[n][3]>>]

\* the list comprehension of lines 178-181
RECURSIVE NotIgnored(_)
NotIgnored(locs) ==
    IF locs = <<>> THEN <<>>
    ELSE LET x == Head(locs)
         IN (IF ~x[4] THEN <<(<<x[1], x[3]>>)>> ELSE <<>>) \o NotIgnored(Tail(locs))

\* InScope testing the wrong collection: the artifacts instead of dml_files
InScopeOfArtifacts(file, files) == file \in c_files

\* "dml_file in dml_files"
InScope(file, files) == file \in files

(***************************************************************************)
(* find_dead_methods, one action per loop iteration.                       *)
(*   pc = "scan"   the loop over sorted(c_files)                 (147-159) *)
(*   pc = "items"  the loop over linemarks_by_path.items()       (162-173) *)
(*   pc = "span"   the loop over the sorted spans of one file    (166-171) *)
(*   pc = "while"  the inner while loop                          (170-171) *)
(*   pc = "rest"   the loop over the files without markers       (177-181) *)
(*   pc = "done"   returned (dead, skipped)                                *)
(*   pc = "raised" method_locations raised                                 *)
(***************************************************************************)
IdleHeader == listed = <<>> /\ body = <<>> /\ sources = NotCalled

IdleAst == tree = Leaf("import") /\ yielded = NotCalled

FindStart ==
    /\ pc = "scan"
    /\ todo = SortedPaths(c_files)
    /\ linemarks_by_path = <<>>
    /\ lm_order = <<>>
    /\ k = 0
    /\ dml_file = <<>>
    /\ linemarks = <<Inf>>
    /\ i = 0
    /\ spans = <<>>
    /\ j = 0
    /\ dead = <<>>
    /\ skipped = <<>>

\* one iteration of "for c_file in sorted(c_files)"
ScanFile ==
    /\ pc = "scan"
    /\ todo # <<>>
    /\ LET c_file == Head(todo)
           ms == ReadMatches(c_file)
           d == Normalize(PathStrs(ms), ms, c_file,
                          [map |-> linemarks_by_path, order |-> lm_order])
       IN /\ linemarks_by_path' = d.map
          /\ lm_order' = d.order
    /\ todo' = Tail(todo)
    /\ UNCHANGED <<pc, k, dml_file, linemarks, i, spans, j, dead, skipped>>
    /\ UNCHANGED <<findInputs, headerVars, astVars>>

EndScan ==
    /\ pc = "scan"
    /\ todo = <<>>
    /\ pc' = "items"
    /\ UNCHANGED <<todo, linemarks_by_path, lm_order, k, dml_file, linemarks,
                   i, spans, j, dead, skipped>>
    /\ UNCHANGED <<findInputs, headerVars, astVars>>

\* an item whose key is in dml_files: lines 164-167, up to the first span
StartSweep ==
    /\ pc = "items"
    /\ k < Len(lm_order)
    /\ InScope(lm_order[k + 1], dml_files)
    /\ dml_file' = lm_order[k + 1]
    /\ linemarks' = WithSentinel(linemarks_by_path[lm_order[k + 1]])
    /\ i' = 0
    /\ IF traverse_ast(ast[lm_order[k + 1]]).ok
       THEN /\ spans' = sorted(method_locations(lm_order[k + 1]))
            /\ pc' = "span"
       ELSE /\ spans' = <<>>
            /\ pc' = "raised"
    /\ j' = 0
    /\ UNCHANGED <<todo, linemarks_by_path, lm_order, k, dead, skipped>>
    /\ UNCHANGED <<findInputs, headerVars, astVars>>

\* an item whose key is not in dml_files: line 173
SkipFile ==
    /\ pc = "items"
    /\ k < Len(lm_order)
    /\ ~InScope(lm_order[k + 1], dml_files)
    /\ skipped' = Append(skipped, lm_order[k + 1])
    /\ k' = k + 1
    /\ UNCHANGED <<pc, todo, linemarks_by_path, lm_order, dml_file, linemarks,
                   i, spans, j, dead>>
    /\ UNCHANGED <<findInputs, headerVars, astVars>>

EndItems ==
    /\ pc = "items"
    /\ k = Len(lm_order)
    /\ pc' = "rest"
    /\ UNCHANGED <<todo, linemarks_by_path, lm_order, k, dml_file, linemarks,
                   i, spans, j, dead, skipped>>
    /\ UNCHANGED <<findInputs, headerVars, astVars>>

\* lines 168-169 for the next span
TestSpan ==
    /\ pc = "span"
    /\ j < Len(spans)
    /\ LET span == spans[j + 1]
       IN dead' = IF ReportsDead(linemarks[i + 1], span[2], span[4])
                  THEN DeadAppend(dead, dml_file, <<span[1], span[3]>>)
                  ELSE dead
    /\ pc' = "while"
    /\ UNCHANGED <<todo, linemarks_by_path, lm_order, k, dml_file, linemarks,
                   i, spans, j, skipped>>
    /\ UNCHANGED <<findInputs, headerVars, astVars>>

\* one iteration of the while loop: line 171
Advance ==
    /\ pc = "while"
    /\ MarkConsumed(linemarks[i + 1], spans[j + 1][2])
    /\ i' = i + 1
    /\ UNCHANGED <<pc, todo, linemarks_by_path, lm_order, k, dml_file,
                   linemarks, spans, j, dead, skipped>>
    /\ UNCHANGED <<findInputs, headerVars, astVars>>

\* the while condition is false: on to the next span
ExitWhile ==
    /\ pc = "while"
    /\ ~MarkConsumed(linemarks[i + 1], spans[j + 1][2])
    /\ j' = j + 1
    /\ pc' = "span"
    /\ UNCHANGED <<todo, linemarks_by_path, lm_order, k, dml_file, linemarks,
                   i, spans, dead, skipped>>
    /\ UNCHANGED <<findInputs, headerVars, astVars>>

\* the spans of the file are exhausted: on to the next item
EndSpans ==
    /\ pc = "span"
    /\ j = Len(spans)
    /\ k' = k + 1
    /\ pc' = "items"
    /\ UNCHANGED <<todo, linemarks_by_path, lm_order, dml_file, linemarks,
                   i, spans, j, dead, skipped>>
    /\ UNCHANGED <<findInputs, headerVars, astVars>>

\* dml_files.difference(linemarks_by_path), less the paths already handled
Unmarked == (dml_files \ DOMAIN linemarks_by_path) \ DOMAIN dead

\* one iteration of "for path in dml_files.difference(linemarks_by_path)"
ZeroMarkerFile ==
    /\ pc = "rest"
    /\ \E path \in Unmarked :
         IF traverse_ast(ast[path]).ok
         THEN /\ dead' = dead @@ (path :> NotIgnored(method_locations(path)))
              /\ pc' = pc
         ELSE /\ dead' = dead
              /\ pc' = "raised"
    /\ UNCHANGED <<todo, linemarks_by_path, lm_order, k, dml_file, linemarks,
                   i, spans, j, skipped>>
    /\ UNCHANGED <<findInputs, headerVars, astVars>>

Return ==
    /\ pc = "rest"
    /\ Unmarked = {}
    /\ pc' = "done"
    /\ UNCHANGED <<todo, linemarks_by_path, lm_order, k, dml_file, linemarks,
                   i, spans, j, dead, skipped>>
    /\ UNCHANGED <<findInputs, headerVars, astVars>>

Next ==
    \/ ScanFile
    \/ EndScan
    \/ StartSweep
    \/ SkipFile
    \/ EndItems
    \/ TestSpan
    \/ Advance
    \/ ExitWhile
    \/ EndSpans
    \/ ZeroMarkerFile
    \/ Return

(***************************************************************************)
(* Inputs.                                                                 *)
(***************************************************************************)
\* the line number n as the directive writes it
Digits(n) == IF n < 10 THEN <<n>> ELSE <<n \div 10, n % 10>>

\* directives for the lines of S into file f, highest line first
RECURSIVE MarksText(_, _)
MarksText(S, f) ==
    IF S = {} THEN <<>>
    ELSE LET m == CHOOSE x \in S : \A y \in S : y <= x
         IN <<Match(Digits(m), f)>> \o MarksText(S \ {m}, f)

\* the name of the n-th method of an enumerated file
MethodNames == <<"c", "a", "b", "d", "e">>

\* the method nodes an enumerated file may hold at position n
MethodsAt(n) ==
    {Method(se[1], se[2], MethodNames[n], IF x THEN <<"None">> ELSE <<>>, Compound(<<>>)) :
        se \in {p \in (1..MaxLine) \X (1..MaxLine) : p[1] <= p[2]}, x \in BOOLEAN}

\* the statement lists of up to n methods
RECURSIVE MethodLists(_)
MethodLists(n) ==
    IF n = 0 THEN {<<>>}
    ELSE LET shorter == MethodLists(n - 1)
         IN shorter \cup {Append(s, m) : s \in {t \in shorter : Len(t) = n - 1},
                                         m \in MethodsAt(n)}

RelA == <<"..", "a.dml">>

AbsB == <<"/", "w", "b.dml">>

RelX == <<"obj", "x.c">>

LnkX == <<"/", "w", "lnk", "x.c">>

TreeB ==
    Block("dml", <<Method(1, 2, "b", <<"int">>, Compound(<<"expr">>)),
                   Method(3, 3, "c", <<>>, Compound(<<"error">>))>>)

\* the sweep over one marked file in scope: every list of up to MaxSpans
\* methods against every non-empty set of marker lines
InitSweep ==
    /\ c_files = {ArtX}
    /\ \E M \in SUBSET (1..MaxLine) :
         /\ M # {}
         /\ text = (ArtX :> MarksText(M, RelA)) @@ (ArtY :> <<>>)
    /\ dml_files = {FileA}
    /\ \E ms \in MethodLists(MaxSpans) :
         ast = (FileA :> Block("dml", ms)) @@ (FileB :> TreeB)
    /\ version = (FileA :> <<1, 4>>) @@ (FileB :> <<1, 4>>)

\* the trees of FileA in InitScope
ScopeTrees ==
    {Block("dml", <<>>),
     Block("dml", <<Method(1, 2, "a", <<>>, Compound(<<>>)),
                    Method(2, 3, "b", <<"None">>, Compound(<<>>))>>),
     Block("dml", <<Method(1, 1, "a", <<>>, Compound(<<>>)),
                    Block("object", <<Leaf("bitorder")>>)>>)}

\* the ways the artifacts are passed in InitScope
ScopeArtifacts == {{ArtX}, {RelX}, {LnkX}, {ArtX, ArtY}, {RelX, ArtY}}

\* what y.c holds in InitScope
ScopeTextY == {<<>>, <<Match(<<0, 2>>, RelA), Match(<<1>>, <<"x.c">>)>>}

\* scope, versions, path forms and self-references on a few trees
InitScope ==
    /\ c_files \in ScopeArtifacts
    /\ \E M \in SUBSET (1..MaxLine), refB \in BOOLEAN, self \in BOOLEAN, ty \in ScopeTextY :
         text = (ArtX :> (MarksText(M, RelA)
                         \o (IF refB THEN <<Match(<<2>>, AbsB)>> ELSE <<>>)
                         \o (IF self THEN <<Match(<<1>>, <<"x.c">>)>> ELSE <<>>)))
                @@ (ArtY :> ty)
    /\ dml_files \in SUBSET {FileA, FileB}
    /\ \E t \in ScopeTrees : ast = (FileA :> t) @@ (FileB :> TreeB)
    /\ \E v \in {<<1, 2>>, <<1, 4>>} : version = (FileA :> v) @@ (FileB :> <<1, 4>>)

ExampleTree ==
    Block("dml", <<Method(1, 5, "a", <<>>, Compound(<<>>)),
                   Method(6, 10, "b", <<>>, Compound(<<>>)),
                   Method(11, 20, "c", <<>>, Compound(<<>>))>>)

ExampleMarks == {3, 7}

\* the worked example: spans (1,5,a), (6,10,b), (11,20,c) and markers {3, 7}
InitExample ==
    /\ c_files = {ArtX}
    /\ text = (ArtX :> MarksText(ExampleMarks, RelA)) @@ (ArtY :> <<>>)
    /\ dml_files = {FileA}
    /\ ast = (FileA :> ExampleTree) @@ (FileB :> TreeB)
    /\ version = (FileA :> <<1, 4>>) @@ (FileB :> <<1, 4>>)

Init ==
    /\ InitSweep \/ InitScope \/ InitExample
    /\ FindStart
    /\ IdleHeader
    /\ IdleAst

Spec == Init /\ [][Next]_vars

(***************************************************************************)
(* Vocabulary of the properties of find_dead_methods.                      *)
(***************************************************************************)
\* the files whose markers were swept: in scope and in the marker mapping
Swept == dml_files \cap DOMAIN linemarks_by_path

\* the report of a file: its list in dead, empty when it has no key
Report(f) == IF f \in DOMAIN dead THEN dead[f] ELSE <<>>

\* the (start line, name) under which a span is reported
Key(span) == <<span[1], span[3]>>

Keys(locs) == {Key(locs[n]) : n \in DOMAIN locs}

\* the positions of locs reported under key e that satisfy P
Positions(locs, e, P(_)) == {n \in DOMAIN locs : Key(locs[n]) = e /\ P(n)}

\* some marker line of M lies inside the span
MarkerInside(span, M) == \E m \in M : span[1] <= m /\ m <= span[2]

\* the largest end line among the spans before position n, -1 when none
PrevMaxEnd(ss, n) ==
    IF n = 1 THEN -1
    ELSE CHOOSE e \in {ss[p][2] : p \in 1..(n - 1)} : \A q \in 1..(n - 1) : ss[q][2] <= e

\* the marker lines no span before position n has consumed
Unconsumed(ss, n, M) == {m \in M : \A p \in 1..(n - 1) : m > ss[p][2]}

\* the file a directive of artifact c points to
Target(c, m) == Resolve(Join(Parent(c), m.dml_file))

\* the files some directive points to from an artifact other than itself, as
\* line 158 compares them: the target against the artifact path as passed
MarkedFiles ==
    UNION {{Target(c, ReadMatches(c)[n]) :
              n \in {x \in DOMAIN ReadMatches(c) : Target(c, ReadMatches(c)[x]) # c}} :
           c \in c_files}

(***************************************************************************)
(* C1.  For a swept file, a method is reported dead iff it is not excluded *)
(* and no marker line of the file lies inside its span [start, end]: each  *)
(* (start, name) occurs in the report once per such method.                *)
(* This is the claim as stated; the sweep does not satisfy it.             *)
(***************************************************************************)
C1_DeadIffNoMarkerInSpan ==
    pc = "done" =>
      \A f \in Swept :
        LET locs == method_locations(f)
            M == linemarks_by_path[f]
            IsDead(n) == ~locs[n][4] /\ ~MarkerInside(locs[n], M)
        IN \A e \in Keys(locs) \cup Range(Report(f)) :
             Count(Report(f), e) = Cardinality(Positions(locs, e, IsDead))

(***************************************************************************)
(* C2.  For a swept file, with the spans in ascending order, a method is   *)
(* reported dead iff it is not excluded and every marker line not consumed *)
(* by an earlier span is greater than its end line; equivalently iff it is *)
(* not excluded and no marker line m has (largest end line of the earlier  *)
(* spans) < m <= (its end line).  On the worked example the report is      *)
(* exactly [(11, c)].                                                      *)
(***************************************************************************)
C2_SweepRule ==
    pc = "done" =>
      /\ \A f \in Swept :
           LET ss == sorted(method_locations(f))
               M == linemarks_by_path[f]
               ByPointer(n) == ~ss[n][4] /\ \A m \in Unconsumed(ss, n, M) : m > ss[n][2]
               ByMaxEnd(n) == ~ss[n][4] /\ ~\E m \in M : PrevMaxEnd(ss, n) < m /\ m <= ss[n][2]
           IN /\ \A e \in Keys(ss) \cup Range(Report(f)) :
                   Count(Report(f), e) = Cardinality(Positions(ss, e, ByPointer))
              /\ \A n \in DOMAIN ss : ByPointer(n) <=> ByMaxEnd(n)
      /\ (ast[FileA] = ExampleTree /\ FileA \in Swept
             /\ linemarks_by_path[FileA] = ExampleMarks /\ ~IsDml12(version[FileA]))
           => dead = (FileA :> <<(<<11, "c">>)>>)

\* the worked example has been analysed
C2_Witness ==
    /\ pc = "done"
    /\ ast[FileA] = ExampleTree
    /\ FileA \in Swept
    /\ linemarks_by_path[FileA] = ExampleMarks
    /\ Len(Report(FileA)) = 1

(***************************************************************************)
(* C3.  For a swept file, a method that is not excluded and whose end line *)
(* is the line of some marker is never reported dead: the occurrences of a *)
(* (start, name) in the report leave room for every such method.           *)
(* This is the claim as stated; the sweep does not satisfy it.             *)
(***************************************************************************)
C3_EndLineMarkerIsLive ==
    pc = "done" =>
      \A f \in Swept :
        LET locs == method_locations(f)
            M == linemarks_by_path[f]
            OnMarker(n) == ~locs[n][4] /\ locs[n][2] \in M
            Every(n) == TRUE
        IN \A e \in Keys(locs) :
             Count(Report(f), e) + Cardinality(Positions(locs, e, OnMarker))
               <= Cardinality(Positions(locs, e, Every))

(***************************************************************************)
(* C4.  A file in dml_files that is absent from the marker mapping has a   *)
(* report holding (start, name) of every method that is not excluded, once *)
(* per such method, and of no excluded method.                             *)
(***************************************************************************)
C4_ZeroMarkerTotality ==
    pc = "done" =>
      \A f \in dml_files \ DOMAIN linemarks_by_path :
        LET locs == method_locations(f)
            Included(n) == ~locs[n][4]
        IN /\ f \in DOMAIN dead
           /\ \A e \in Keys(locs) \cup Range(Report(f)) :
                Count(Report(f), e) = Cardinality(Positions(locs, e, Included))

\* an unmarked file in scope with an excluded and a reported method
C4_Witness ==
    /\ pc = "done"
    /\ \E f \in dml_files \ DOMAIN linemarks_by_path :
         /\ \E n \in DOMAIN method_locations(f) : method_locations(f)[n][4]
         /\ Len(Report(f)) > 0

(***************************************************************************)
(* C5.  At every point of the analysis the report of a file holds a        *)
(* (start, name) at most once per method of that name and line that is not *)
(* excluded, so an excluded method is never reported; and the report of a  *)
(* DML 1.2 file holds nothing.                                             *)
(***************************************************************************)
C5_ExcludedNeverReported ==
    \A f \in DOMAIN dead :
      LET locs == method_locations(f)
          Included(n) == ~locs[n][4]
      IN /\ \A e \in Range(dead[f]) :
              Count(dead[f], e) <= Cardinality(Positions(locs, e, Included))
         /\ IsDml12(version[f]) => dead[f] = <<>>

\* a DML 1.2 file with methods was swept, and an unmarked file with an
\* excluded method went through the last loop
C5_Witness ==
    /\ pc = "done"
    /\ \E f \in Swept :
         /\ IsDml12(version[f])
         /\ \E n \in DOMAIN method_locations(f) :
              ~MarkerInside(method_locations(f)[n], linemarks_by_path[f])
    /\ \E g \in DOMAIN dead \ DOMAIN linemarks_by_path :
         \E n \in DOMAIN method_locations(g) : method_locations(g)[n][4]

C7_NoSelfReference ==
    \A p \in DOMAIN linemarks_by_path :
      \A n \in linemarks_by_path[p] :
        \E c \in c_files :
          \E x \in DOMAIN ReadMatches(c) :
            /\ IntOf(ReadMatches(c)[x].line_str) = n
            /\ Target(c, ReadMatches(c)[x]) = p
            /\ p # Resolve(c)

(***************************************************************************)
(* C10.  While one file is swept the pointer i stays an index of the       *)
(* marker list, which holds the distinct marker lines of the file and the  *)
(* sentinel, so 0 <= i <= (number of distinct marker lines); i never       *)
(* decreases and moves by at most one per step, so it is incremented at    *)
(* most that many times; and the inner while loop is always left.          *)
(***************************************************************************)
Sweeping == pc \in {"span", "while"}

C10_PointerInRange ==
    Sweeping =>
      /\ Len(linemarks) = Cardinality(linemarks_by_path[dml_file]) + 1
      /\ 0 <= i
      /\ i <= Cardinality(linemarks_by_path[dml_file])
      /\ i + 1 \in DOMAIN linemarks

C10_PointerSweep ==
    /\ []C10_PointerInRange
    /\ [][Sweeping => i' = i \/ (i' = i + 1 /\ pc = "while" /\ pc' = "while")]_vars
    /\ (pc = "while") ~> (pc # "while")

\* the pointer has consumed every marker of a file with several markers
C10_Witness ==
    /\ pc = "while"
    /\ i = Cardinality(linemarks_by_path[dml_file])
    /\ i >= 2
    /\ j >= 1

\* the inputs of Init, less the sweeps that differ only in excluded flags,
\* which the pointer does not depend on
InitFair ==
    /\ \/ InitSweep /\ \A n \in DOMAIN ast[FileA].stmts : ast[FileA].stmts[n].inp = <<>>
       \/ InitScope
       \/ InitExample
    /\ FindStart
    /\ IdleHeader
    /\ IdleAst

\* the function is one sequential thread of control: an iteration of the
\* while loop that can run does run
FairSpec == InitFair /\ [][Next]_vars /\ WF_vars(Advance \/ ExitWhile)

(***************************************************************************)
(* dml_sources_from_body.  A text is the sequence of its characters.       *)
(***************************************************************************)
\* the literal head of c_dml_header_re, up to the line "Source files:"
HeaderHead ==
 <<
    "/", "*", "\n", " ", "*", " ", "G", "e", "n", "e", "r", "a", "t", "e",
    "d", " ", "b", "y", " ", "d", "m", "l", "c", ",", " ", "d", "o", " ",
    "n", "o", "t", " ", "e", "d", "i", "t", "!", "\n", " ", "*", "\n", " ",
    "*", " ", "S", "o", "u", "r", "c", "e", " ", "f", "i", "l", "e", "s",
    ":", "\n"
 >>

\* " \*   ": what starts each line of group 1
LinePrefix == <<" ", "*", " ", " ", " ">>

\* " \*/": what follows group 1
HeaderTail == <<" ", "*", "/">>

StartsWith(s, pre) == Len(s) >= Len(pre) /\ SubSeq(s, 1, Len(pre)) = pre

Drop(s, n) == SubSeq(s, n + 1, Len(s))

\* position of the first character of s that lies in S, 0 when there is none
RECURSIVE FirstIn(_, _)
FirstIn(s, S) ==
    IF s = <<>> THEN 0
    ELSE IF Head(s) \in S THEN 1
    ELSE LET r == FirstIn(Tail(s), S) IN IF r = 0 THEN 0 ELSE r + 1

\* "(?: \*   .*\n)*", greedy: the lines with the prefix, "." being any
\* character but "\n"; gives the text matched
RECURSIVE ListedLines(_)
ListedLines(s) ==
    LET nl == FirstIn(s, {"\n"})
    IN IF StartsWith(s, LinePrefix) /\ nl > 0
       THEN SubSeq(s, 1, nl) \o ListedLines(Drop(s, nl))
       ELSE <<>>

\* c_dml_header_re.match(body): group 1, or no match.  A line with the prefix
\* cannot start " */", so giving lines back never makes the tail match.
HeaderMatch(text0) ==
    IF ~StartsWith(text0, HeaderHead) THEN Raise
    ELSE LET group == ListedLines(Drop(text0, Len(HeaderHead)))
         IN IF StartsWith(Drop(text0, Len(HeaderHead) + Len(group)), HeaderTail)
            THEN Yield(group)
            ELSE Raise

\* the line boundaries of str.splitlines() among the characters used here
LineBreaks == {"\n", "\r", "\f"}

\* str.splitlines(): break at every line boundary, "\r\n" being one
\* boundary; no empty last line
RECURSIVE Splitlines(_)
Splitlines(s) ==
    LET b == FirstIn(s, LineBreaks)
        crlf == b > 0 /\ b < Len(s) /\ s[b] = "\r" /\ s[b + 1] = "\n"
    IN IF s = <<>> THEN <<>>
       ELSE IF b = 0 THEN <<s>>
       ELSE <<SubSeq(s, 1, b - 1)>> \o Splitlines(Drop(s, IF crlf THEN b + 1 ELSE b))

\* line[5:]
Slice5(line) == Drop(line, 5)

dml_sources_from_body(text0) ==
    LET m == HeaderMatch(text0)
        lines == Splitlines(m.out)
    IN IF ~m.ok THEN Raise
       ELSE Yield([n \in DOMAIN lines |-> Slice5(lines[n])])

\* the header dmlc writes for the paths ps, followed by the text rest
RECURSIVE PathLines(_)
PathLines(ps) ==
    IF ps = <<>> THEN <<>>
    ELSE LinePrefix \o Head(ps) \o <<"\n">> \o PathLines(Tail(ps))

WellFormed(ps, rest) == HeaderHead \o PathLines(ps) \o HeaderTail \o rest

\* the characters of enumerated paths: none is "\n"
PathChars == {"a", "\r", "\f"}

\* the paths of the assertion of lines 47-55
AssertedPaths == <<(<<"/", "a", "/", "b", ".", "d", "m", "l">>),
                   (<<"/", "c", "/", "d", ".", "d", "m", "l">>)>>

AssertedRest == <<"\n", "b", "l", "a", "h">>

Rests == {<<>>, <<"\n">>, <<"\n", " ", "*", " ", " ", " ", "a", "\n", " ", "*", "/">>}

\* well-formed headers of up to MaxPaths paths of up to MaxPathLen
\* characters, the asserted text, and headers cut short
InitHeader ==
    /\ \/ /\ listed \in SeqsUpTo(SeqsUpTo(PathChars, MaxPathLen), MaxPaths)
          /\ \E rest \in Rests : body = WellFormed(listed, rest)
       \/ /\ listed = AssertedPaths
          /\ body = WellFormed(listed, AssertedRest)
       \/ /\ listed \in SeqsUpTo(SeqsUpTo({"a"}, MaxPathLen), MaxPaths)
          /\ \E cut \in 1..Len(HeaderTail) :
               body = Front(WellFormed(listed, <<>>)) \/ body = Drop(WellFormed(listed, <<>>), cut)
    /\ sources = NotCalled
    /\ c_files = {} /\ text = <<>> /\ dml_files = {} /\ ast = <<>> /\ version = <<>>
    /\ FindStart
    /\ IdleAst

CallSources ==
    /\ ~sources.called
    /\ sources' = dml_sources_from_body(body)
    /\ UNCHANGED <<listed, body, findInputs, findLocals, astVars>>

NextHeader == CallSources

SpecHeader == InitHeader /\ [][NextHeader]_vars

\* the header of body is the well-formed header of the paths listed
IsWellFormed == \E rest \in Rests \cup {AssertedRest} : body = WellFormed(listed, rest)

(***************************************************************************)
(* C8.  For a well-formed header listing N paths without "\n",             *)
(* dml_sources_from_body returns exactly those N paths, in order,          *)
(* character for character.                                                *)
(* This is the claim as stated; str.splitlines() does not satisfy it.      *)
(***************************************************************************)
C8_HeaderRoundTrip ==
    (sources.called /\ IsWellFormed) => (sources.ok /\ sources.out = listed)

(***************************************************************************)
(* traverse_ast on enumerated trees.                                       *)
(***************************************************************************)
\* a kind no branch of traverse_ast handles
OtherKind == "bitorder"

PlainMethod == Method(1, 2, "a", <<"int">>, Compound(<<"expr">>))

InlineMethod == Method(3, 4, "b", <<"None">>, Compound(<<"expr">>))

AbstractMethod == SharedMethod(5, 5, "c", NoBody)

\* the nodes without statements of the enumerated shapes
ShapeLeaves == {Leaf("parameter"), Leaf(OtherKind), PlainMethod, InlineMethod,
                AbstractMethod, Block("object", <<>>)}

ShapeBlockKinds == {"object", "template"}

\* the trees of exactly n nodes, and the statement lists of n nodes in all
RECURSIVE TreesOf(_)
RECURSIVE ForestsOf(_)
ForestsOf(n) ==
    IF n = 0 THEN {<<>>}
    ELSE UNION {{<<t>> \o f : t \in TreesOf(m), f \in ForestsOf(n - m)} : m \in 1..n}

TreesOf(n) ==
    (IF n = 1 THEN ShapeLeaves ELSE {})
    \cup (IF n > 1 THEN {Block(kd, f) : kd \in ShapeBlockKinds, f \in ForestsOf(n - 1)} ELSE {})
    \cup UNION {{Cond("hashif", t, f) : t \in ForestsOf(m), f \in ForestsOf(n - 1 - m)} :
                m \in 0..(n - 1)}

\* the input parameter lists and bodies of the enumerated methods
InpLists == {<<>>, <<"int">>, <<"None">>, <<"int", "None">>, <<"None", "int">>}

Bodies == {Compound(<<>>), Compound(<<"expr">>), Compound(<<"error">>),
           Compound(<<"expr", "error">>), Compound(<<"hashif">>),
           [kind |-> "expr", stmts |-> <<"error">>]}

\* one node of every kind and every enumerated method; a declaration is
\* also given statements, which the traversal must not look at
Statements ==
    {Leaf(kd) : kd \in DeclKinds \cup {OtherKind}}
    \cup {Block(kd, <<PlainMethod, Leaf(OtherKind)>>) : kd \in DeclKinds}
    \cup {Block(kd, <<PlainMethod>>) : kd \in {"dml", "object"} \cup BlockKinds}
    \cup {Cond(kd, <<PlainMethod>>, <<InlineMethod>>) : kd \in IfKinds}
    \cup {Method(1, 2, "a", inp, bd) : inp \in InpLists, bd \in Bodies}
    \cup {SharedMethod(1, 2, "a", bd) : bd \in Bodies \cup {NoBody}}

InitAst ==
    /\ \/ \E n \in 1..(MaxNodes - 1) :
            \E f \in ForestsOf(n) : tree = Block("dml", f)
       \/ \E st \in Statements :
            tree \in {st, Block("dml", <<st>>), Block("dml", <<PlainMethod, st, PlainMethod>>)}
    /\ yielded = NotCalled
    /\ c_files = {} /\ text = <<>> /\ dml_files = {} /\ ast = <<>> /\ version = <<>>
    /\ FindStart
    /\ IdleHeader

\* list(traverse_ast(ast)), as method_locations runs it
CallTraverse ==
    /\ ~yielded.called
    /\ yielded' = traverse_ast(tree)
    /\ UNCHANGED <<tree, findInputs, findLocals, headerVars>>

NextAst == CallTraverse

SpecAst == InitAst /\ [][NextAst]_vars

(***************************************************************************)
(* Vocabulary of the property of traverse_ast.  A node is named by its     *)
(* address: the positions to follow from the root, a position counting     *)
(* through the statements of the true branch and then of the false branch. *)
(***************************************************************************)
Kids(node) == node.stmts \o node.els

RECURSIVE NodeAt(_, _)
NodeAt(node, addr) ==
    IF addr = <<>> THEN node ELSE NodeAt(Kids(node)[Head(addr)], Tail(addr))

RECURSIVE AddrsOf(_)
AddrsOf(node) ==
    {<<>>} \cup UNION {{<<n>> \o a : a \in AddrsOf(Kids(node)[n])} : n \in DOMAIN Kids(node)}

\* the kinds through which a node is reachable
PassedKinds == {"dml", "object", "template", "template_dml12", "in_each",
                "toplevel_if", "hashif"}

\* every node above the address is of a kind the traversal goes through
Reachable(root, addr) ==
    \A n \in 0..(Len(addr) - 1) : NodeAt(root, SubSeq(addr, 1, n)).kind \in PassedKinds

ReachableAddrs(root) == {a \in AddrsOf(root) : Reachable(root, a)}

HandledKinds == DeclKinds \cup PassedKinds \cup {"method", "sharedmethod"}

\* a node at which the traversal fails: a kind outside the handled sets, or
\* a body that is not a compound statement
Unhandled(node) ==
    \/ node.kind \notin HandledKinds
    \/ node.kind = "method" /\ node.body.kind # "compound"
    \/ node.kind = "sharedmethod" /\ node.body # NoBody /\ node.body.kind # "compound"

\* the node yields a descriptor: a method, or a shared method with a body
YieldsOne(node) ==
    \/ node.kind = "method"
    \/ node.kind = "sharedmethod" /\ node.body # NoBody

\* the descriptor the claim gives a yielding node
Descriptor(node) ==
    <<node.lineno, node.endlineno, node.name,
      /\ node.kind = "method"
      /\ \/ "None" \in Range(node.inp)
         \/ "error" \in Range(node.body.stmts)>>

(***************************************************************************)
(* C9.  traverse_ast fails when a reachable node is of a kind outside the  *)
(* handled sets (or has a body that is not compound); otherwise it yields  *)
(* each descriptor once per reachable method node and per reachable shared *)
(* method node with a body that has it, and nothing else.  A method's      *)
(* descriptor is excluded iff a parameter is untyped or the top level of   *)
(* its body holds an error statement; a shared method's never is.          *)
(***************************************************************************)
C9_TraversalYield ==
    yielded.called =>
      LET R == ReachableAddrs(tree)
          Y == {a \in R : YieldsOne(NodeAt(tree, a))}
      IN IF \E a \in R : Unhandled(NodeAt(tree, a))
         THEN ~yielded.ok
         ELSE /\ yielded.ok
              /\ Len(yielded.out) = Cardinality(Y)
              /\ \A a \in Y :
                   Count(yielded.out, Descriptor(NodeAt(tree, a)))
                     = Cardinality({b \in Y : Descriptor(NodeAt(tree, b))
                                                = Descriptor(NodeAt(tree, a))})

\* a tree with a method in each branch of a conditional has been traversed,
\* and one of the two descriptors is excluded
C9_Witness ==
    /\ yielded.called
    /\ yielded.ok
    /\ \E a \in ReachableAddrs(tree) :
         /\ NodeAt(tree, a).kind = "hashif"
         /\ \E n \in DOMAIN NodeAt(tree, a).stmts : NodeAt(tree, a).stmts[n].kind = "method"
         /\ \E n \in DOMAIN NodeAt(tree, a).els : NodeAt(tree, a).els[n].kind = "method"
    /\ \E m, n \in DOMAIN yielded.out : yielded.out[m][4] /\ ~yielded.out[n][4]

====
